---- MODULE Spec2Model ----
(***************************************************************************)
(* A model of tex_builder.h: the texture builder (texture, noise, rect,    *)
(* circle, mirror, flip, grunge, smear, tex_build/_create).                *)
(*                                                                         *)
(* Machine integers.  An unsigned int (32 bits) is held by the integer of  *)
(* the same bit pattern read in two's complement: 4294967295 is held as    *)
(* -1, 4294967294 as -2.  Addition modulo 2^32 is then UAdd, the unsigned  *)
(* order is ULt/ULe, and the conversion unsigned int -> int (modular with  *)
(* GNU C, which the header requires) is the identity on the held value.    *)
(* A size_t (64 bits) of the model is always a buffer dimension or an      *)
(* index below 2^31; an int or unsigned int converted to size_t whose held *)
(* value is negative is at least 2^31 and so above every such size_t.      *)
(*                                                                         *)
(* Floats.  A float is held in units of 1/FOne: the finite values are the  *)
(* integers -FMax..FMax, and PInf, NInf, NaN are the IEEE specials.        *)
(* Results are rounded to the nearest unit and overflow to an infinity.    *)
(***************************************************************************)
EXTENDS Integers, Sequences, FiniteSets, TLC

VARIABLES
    phase,        \* where the build stands: Uninitialized, Building, Finalized, Crashed, Hung
    tex,          \* the macro's `temp`: width, height and the pixel store rgb
    rnd,          \* the state of the C library's random source
    heapLive,     \* how many malloc'ed blocks are live
    created,      \* the w and h given to the last texture() call
    result,       \* what the last completed tex_build returned
    last,         \* the last operation: its name, arguments, the store before it, the indices it wrote
    last2,        \* the operation before it: its name and the store before it
    noiseLog,     \* the _noise calls so far: store before, intensity, store after, draws
    nOps,         \* operations applied in the current build
    allocFailed,  \* some malloc returned NULL
    nullAccess    \* a pixel was read or written through a null pointer

vars == <<phase, tex, rnd, heapLive, created, result, last, last2,
          noiseLog, nOps, allocFailed, nullAccess>>

(* ---------------------------- bounds ----------------------------------- *)
MaxW == 2
MaxH == 2
MaxCanvas == 4
MaxRadius == 3
MaxOps == 2
XformW == 3
XformH == 3
HalfUnit == 2
FMax == 40
RandMax == 4

(* ------------------------ machine integers ----------------------------- *)
IntMax == 2147483647
IntMin == -IntMax - 1

\* a + b modulo 2^32 on held values (unsigned int arithmetic, also x - c as x + (-c))
UAdd(a, b) ==
    IF b > 0 /\ a > IntMax - b THEN (a + IntMin) + (b + IntMin)
    ELSE IF b < 0 /\ a < IntMin - b THEN (a - IntMin) + (b - IntMin)
    ELSE a + b

\* a - b modulo 2^32 on held values
USub(a, b) == UAdd(a, -b)

\* a << 1 on an unsigned int
UShl1(a) == UAdd(a, a)

\* unsigned a < b, a <= b on held values
ULt(a, b) == IF (a >= 0) = (b >= 0) THEN a < b ELSE a >= 0
ULe(a, b) == a = b \/ ULt(a, b)

\* (size_t) v < n and (size_t) v > n for an int or unsigned int v and a size_t n < 2^31
SizeLt(v, n) == v >= 0 /\ v < n
SizeGt(v, n) == v < 0 \/ v > n

(* ----------------------------- floats ---------------------------------- *)
FOne == 2 * HalfUnit
PInf == FMax + 1
NInf == -(FMax + 1)
NaN == FMax + 2

FNorm(v) == IF v > FMax THEN PInf ELSE IF v < -FMax THEN NInf ELSE v

\* round-to-nearest quotient n / d, d > 0
RoundDiv(n, d) == IF n >= 0 THEN (2 * n + d) \div (2 * d) ELSE -((2 * (-n) + d) \div (2 * d))

FAdd(a, b) ==
    IF a = NaN \/ b = NaN THEN NaN
    ELSE IF (a = PInf /\ b = NInf) \/ (a = NInf /\ b = PInf) THEN NaN
    ELSE IF a = PInf \/ b = PInf THEN PInf
    ELSE IF a = NInf \/ b = NInf THEN NInf
    ELSE FNorm(a + b)

FSign(a) == IF a > 0 THEN 1 ELSE IF a < 0 THEN -1 ELSE 0

FMul(a, b) ==
    IF a = NaN \/ b = NaN THEN NaN
    ELSE IF a \in {PInf, NInf} \/ b \in {PInf, NInf}
         THEN IF a = 0 \/ b = 0 THEN NaN
              ELSE IF FSign(a) * FSign(b) > 0 THEN PInf ELSE NInf
    ELSE FNorm(RoundDiv(a * b, FOne))

\* fmaxf, fminf: a NaN argument is treated as missing data
fmaxf(a, b) == IF a = NaN THEN b ELSE IF b = NaN THEN a ELSE IF a > b THEN a ELSE b
fminf(a, b) == IF a = NaN THEN b ELSE IF b = NaN THEN a ELSE IF a < b THEN a ELSE b

(* ----------------------------- colours --------------------------------- *)
Color(r, g, b, a) == [r |-> r, g |-> g, b |-> b, a |-> a]
Red == Color(FOne, 0, 0, FOne)
Green == Color(0, FOne, 0, FOne)
Grey == Color(HalfUnit, HalfUnit, HalfUnit, HalfUnit)

(* ------------------------- the pixel store ----------------------------- *)
\* A store of n pixels is a function on 0..n-1; NullStore is the null pointer.
NullStore == <<>>
NoTex == [width |-> 0, height |-> 0, rgb |-> NullStore]

\* tex->rgb[index] = color, with the indices written so far.  A write outside
\* the store is recorded and leaves the store alone.
Store(acc, index, color) ==
    [acc EXCEPT !.rgb = IF index \in DOMAIN acc.rgb THEN [acc.rgb EXCEPT ![index] = color]
                        ELSE acc.rgb,
                !.written = acc.written \cup {index}]

\* i * tex->width + j as a size_t; OutOfStore stands for every value of 2^31 or more
OutOfStore == -1
Index(i, width, j) == IF i < 0 \/ j < 0 THEN OutOfStore ELSE i * width + j

NoArgs == [x |-> 0, y |-> 0, p |-> 0, q |-> 0, c |-> Red, k |-> 0]
NoLast == [op |-> "none", arg |-> NoArgs, before |-> NullStore, written |-> {}]
NoLast2 == [op |-> "none", before |-> NullStore]

(* ----------------------------- texture --------------------------------- *)
\* for (int i = 0; i < (w * h); i++) tex.rgb[i] = rgba;
TextureFill(w, h, rgba) == [i \in 0..(w * h - 1) |-> rgba]

texture(w, h, rgba) == [width |-> w, height |-> h, rgb |-> TextureFill(w, h, rgba)]

(* ------------------------------- rect ---------------------------------- *)
\* a guard that takes the width for the height and the height for the width
RectFitsSwapped(t, x, y, width, height) ==
    ~(SizeGt(UAdd(x, width), t.height) \/ SizeGt(UAdd(y, height), t.width))

\* the negation of: x + width > tex->width || y + height > tex->height
RectFits(t, x, y, width, height) ==
    ~(SizeGt(UAdd(x, width), t.width) \/ SizeGt(UAdd(y, height), t.height))

\* the inner loop with j <= x + width
RECURSIVE RectColsInclusive(_, _, _, _, _, _)
RectColsInclusive(acc, t, i, j, xEnd, color) ==
    IF ULe(j, xEnd)
    THEN RectColsInclusive(Store(acc, Index(i, t.width, j), color), t, i, UAdd(j, 1), xEnd, color)
    ELSE acc

\* for (unsigned int j = x; j < x + width; j++) tex->rgb[i * tex->width + j] = color;
RECURSIVE RectCols(_, _, _, _, _, _)
RectCols(acc, t, i, j, xEnd, color) ==
    IF ULt(j, xEnd)
    THEN RectCols(Store(acc, Index(i, t.width, j), color), t, i, UAdd(j, 1), xEnd, color)
    ELSE acc

\* for (unsigned int i = y; i < y + height; i++) { the loop over j }
RECURSIVE RectRows(_, _, _, _, _, _, _)
RectRows(acc, t, i, yEnd, x, xEnd, color) ==
    IF ULt(i, yEnd)
    THEN RectRows(RectCols(acc, t, i, x, xEnd, color), t, UAdd(i, 1), yEnd, x, xEnd, color)
    ELSE acc

_rect(t, x, y, width, height, color) ==
    IF ~RectFits(t, x, y, width, height)
    THEN [rgb |-> t.rgb, written |-> {}]
    ELSE RectRows([rgb |-> t.rgb, written |-> {}], t, y, UAdd(y, height), x, UAdd(x, width), color)

(* ------------------------------ circle --------------------------------- *)
\* if (i >= 0 && i < tex->width && row >= 0 && row < tex->height)
\*     tex->rgb[row * tex->width + i] = color;
\* i is an int, row an unsigned int (so row >= 0 always holds)
Plot(acc, t, i, row, color) ==
    IF i >= 0 /\ SizeLt(i, t.width) /\ SizeLt(row, t.height)
    THEN Store(acc, Index(row, t.width, i), color)
    ELSE acc

\* for (int i = lo; i <= hi; i++) { plot (i, rowA); plot (i, rowB); } from i on,
\* hi an unsigned int, so that i <= hi compares i as an unsigned int.
\* Once i has reached tex->width no later i is plotted: with hi below 2^31 the
\* loop ends at hi; with hi at 2^31 or more, i++ runs into INT_MAX, a signed
\* overflow, and the call does not return (runaway).
RECURSIVE Span(_, _, _, _, _, _, _)
Span(acc, t, i, hi, rowA, rowB, color) ==
    IF acc.runaway \/ ~ULe(i, hi) THEN acc
    ELSE IF i >= t.width THEN [acc EXCEPT !.runaway = (hi < 0)]
    ELSE Span(Plot(Plot(acc, t, i, rowA, color), t, i, rowB, color),
              t, i + 1, hi, rowA, rowB, color)

\* the decision variables after  if (err <= 0) {cy++; err += dy; dy += 2;}
\*                               if (err > 0)  {cx--; dx += 2; err += dx - (radius << 1);}
CircleStep(d, radius) ==
    LET a == IF d.err <= 0
             THEN [d EXCEPT !.cy = d.cy + 1, !.err = UAdd(d.err, d.dy), !.dy = d.dy + 2]
             ELSE d
    IN  IF a.err > 0
        THEN [a EXCEPT !.cx = a.cx - 1, !.dx = a.dx + 2,
                       !.err = UAdd(a.err, USub(a.dx + 2, UShl1(radius)))]
        ELSE a

\* int cx = radius - 1, cy = 0, dx = 1, dy = 1, err = dx - (radius << 1);
CircleStart(radius) ==
    [cx |-> USub(radius, 1), cy |-> 0, dx |-> 1, dy |-> 1, err |-> USub(1, UShl1(radius))]

\* while (cx >= cy) { the two span loops; the step }
RECURSIVE CircleLoop(_, _, _, _, _, _, _)
CircleLoop(acc, t, x, y, radius, color, d) ==
    IF acc.runaway \/ ~(d.cx >= d.cy) THEN acc
    ELSE LET s1 == Span(acc, t, USub(x, d.cx), UAdd(x, d.cx),
                        UAdd(y, d.cy), USub(y, d.cy), color)
             s2 == Span(s1, t, USub(x, d.cy), UAdd(x, d.cy),
                        UAdd(y, d.cx), USub(y, d.cx), color)
         IN  CircleLoop(s2, t, x, y, radius, color, CircleStep(d, radius))

_circle(t, x, y, radius, color) ==
    CircleLoop([rgb |-> t.rgb, written |-> {}, runaway |-> FALSE],
               t, x, y, radius, color, CircleStart(radius))

(* ------------------------------- noise --------------------------------- *)
\* The C library's random source: srand(seed) sets the state, rand() steps it
\* and returns a value in 0..RAND_MAX.  RandMax stands for RAND_MAX.
RandStates == 0..15
RandStep(s) == (5 * s + 3) % 16
RandValue(s) == s % (RandMax + 1)

\* a _noise that does not reseed
ReseedMissing(s) == s

\* srand(1): the state of the random source after it, whatever the state s before
Reseed(s) == 1

\* (float)rand() / (float) RAND_MAX - 0.5f, for the value v that rand() returned
Unit(v) == FAdd(RoundDiv(v * FOne, RandMax), -HalfUnit)

\* a clamp that forgets the lower bound
ClampUpperOnly(v) == fminf(v, FOne)

\* fminf(fmaxf(v, 0.0f), 1.0f)
Clamp(v) == fminf(fmaxf(v, 0), FOne)

\* the body of the loop for pixel i: three draws, for r, g and b in this order,
\* then the three clamps; alpha is not touched
NoisePixel(st, i, intensity) ==
    LET s1 == RandStep(st.rnd)
        s2 == RandStep(s1)
        s3 == RandStep(s2)
        px == st.rgb[i]
        r == FAdd(px.r, FMul(intensity, Unit(RandValue(s1))))
        g == FAdd(px.g, FMul(intensity, Unit(RandValue(s2))))
        b == FAdd(px.b, FMul(intensity, Unit(RandValue(s3))))
    IN  [rgb |-> [st.rgb EXCEPT ![i] = [r |-> Clamp(r), g |-> Clamp(g), b |-> Clamp(b), a |-> px.a]],
         written |-> st.written \cup {i},
         rnd |-> s3,
         draws |-> st.draws + 3]

\* for (size_t i = 0; i < tex->width * tex->height; i++) { the body }
RECURSIVE NoiseLoop(_, _, _, _)
NoiseLoop(st, i, n, intensity) ==
    IF i < n THEN NoiseLoop(NoisePixel(st, i, intensity), i + 1, n, intensity) ELSE st

_noise(t, intensity, s) ==
    NoiseLoop([rgb |-> t.rgb, written |-> {}, rnd |-> Reseed(s), draws |-> 0],
              0, t.width * t.height, intensity)

(* -------------------------- grunge and smear --------------------------- *)
\* tex->rgb[0].b += intensity;
_grunge(t, intensity) ==
    [rgb |-> [t.rgb EXCEPT ![0].b = FAdd(t.rgb[0].b, intensity)], written |-> {0}]

\* tex->rgb[0] = rgb;
_smear(t, rgb) == [rgb |-> [t.rgb EXCEPT ![0] = rgb], written |-> {0}]

(* -------------------------- mirror and flip ---------------------------- *)
\* a mirror that works in the buffer itself, without the scratch store: the
\* right half of a row reads pixels the left half has already overwritten
MirrorInPlace(t) ==
    [k \in 0..(t.width * t.height - 1) |->
        LET y == k \div t.width
            x == k % t.width
        IN  IF 2 * x < t.width - 1 THEN t.rgb[y * t.width + (t.width - 1 - x)] ELSE t.rgb[k]]

\* for y, for x: mirrored[y * tex->width + x] = tex->rgb[y * tex->width + (tex->width - 1 - x)];
MirrorScratch(t) ==
    [k \in 0..(t.width * t.height - 1) |->
        LET y == k \div t.width
            x == k % t.width
        IN  t.rgb[y * t.width + (t.width - 1 - x)]]

\* a flip that works in the buffer itself, without the scratch store
FlipInPlace(t) ==
    [k \in 0..(t.width * t.height - 1) |->
        LET y == k \div t.width
            x == k % t.width
        IN  IF 2 * y < t.height - 1 THEN t.rgb[(t.height - 1 - y) * t.width + x] ELSE t.rgb[k]]

\* for y, for x: flipped[y * tex->width + x] = tex->rgb[(tex->height - 1 - y) * tex->width + x];
FlipScratch(t) ==
    [k \in 0..(t.width * t.height - 1) |->
        LET y == k \div t.width
            x == k % t.width
        IN  t.rgb[(t.height - 1 - y) * t.width + x]]

\* for (size_t i = 0; i < tex->width * tex->height; i++) tex->rgb[i] = scratch[i];
CopyBack(t, scratch) ==
    [rgb |-> [i \in 0..(t.width * t.height - 1) |-> scratch[i]],
     written |-> 0..(t.width * t.height - 1)]

_mirror(t) == CopyBack(t, MirrorScratch(t))
_flip(t) == CopyBack(t, FlipScratch(t))

\* the heap after malloc and after free, as the number of live blocks
malloc(live) == live + 1
freeMissing(live) == live
free(live) == live - 1

(* ------------------------------ actions -------------------------------- *)
\* The state before the first tex_build.  The C library starts its random
\* source as if srand(1) had been called.
Init ==
    /\ phase = "Uninitialized"
    /\ tex = NoTex
    /\ rnd = 1
    /\ heapLive = 0
    /\ created = [w |-> 0, h |-> 0]
    /\ result = NoTex
    /\ last = NoLast
    /\ last2 = NoLast2
    /\ noiseLog = <<>>
    /\ nOps = 0
    /\ allocFailed = FALSE
    /\ nullAccess = FALSE

\* A build in progress whose buffer earlier operations have painted with the
\* colours CS, the random source in one of the states RS: the input of an
\* operation taken on its own.
InitDrawn(WS, HS, CS, RS) ==
    /\ phase = "Building"
    /\ \E w \in WS, h \in HS :
         /\ created = [w |-> w, h |-> h]
         /\ \E rgb \in [0..(w * h - 1) -> CS] : tex = [width |-> w, height |-> h, rgb |-> rgb]
    /\ rnd \in RS
    /\ heapLive = 1
    /\ result = NoTex
    /\ last = NoLast
    /\ last2 = NoLast2
    /\ noiseLog = <<>>
    /\ nOps = 0
    /\ allocFailed = FALSE
    /\ nullAccess = FALSE

\* texture(w, h, rgba) as the first argument of tex_build.  malloc may return
\* NULL; the fill loop then writes tex.rgb[0] at address 0, and the process is
\* killed by the trap (the one outcome of a write to the null page).
Texture(WS, HS, CS) ==
    /\ phase = "Uninitialized"
    /\ \E w \in WS, h \in HS, rgba \in CS, ok \in BOOLEAN :
         /\ created' = [w |-> w, h |-> h]
         /\ IF ok
            THEN /\ tex' = texture(w, h, rgba)
                 /\ heapLive' = malloc(heapLive)
                 /\ phase' = "Building"
                 /\ UNCHANGED <<allocFailed, nullAccess>>
            ELSE /\ tex' = [width |-> w, height |-> h, rgb |-> NullStore]
                 /\ phase' = "Crashed"
                 /\ allocFailed' = TRUE
                 /\ nullAccess' = TRUE
                 /\ UNCHANGED heapLive
    /\ nOps' = 0
    /\ last' = NoLast
    /\ last2' = NoLast2
    /\ UNCHANGED <<rnd, result, noiseLog>>

\* what every operation that returns does to the bookkeeping
Applied(op, arg, out) ==
    /\ tex' = [tex EXCEPT !.rgb = out.rgb]
    /\ last' = [op |-> op, arg |-> arg, before |-> tex.rgb, written |-> out.written]
    /\ last2' = [op |-> last.op, before |-> last.before]
    /\ nOps' = nOps + 1

Rect(XS, SS, CS, lim) ==
    /\ phase = "Building"
    /\ nOps < lim
    /\ \E x \in XS, y \in XS, width \in SS, height \in SS, color \in CS :
         Applied("rect", [NoArgs EXCEPT !.x = x, !.y = y, !.p = width, !.q = height, !.c = color],
                 _rect(tex, x, y, width, height, color))
    /\ UNCHANGED <<phase, rnd, heapLive, created, result, noiseLog, allocFailed, nullAccess>>

\* A _circle whose span loop runs away never returns: the process hangs in the
\* loop or is killed, with the pixels written so far in the store.
Circle(XS, RS, CS, lim) ==
    /\ phase = "Building"
    /\ nOps < lim
    /\ \E x \in XS, y \in XS, radius \in RS, color \in CS :
         LET out == _circle(tex, x, y, radius, color)
         IN  /\ Applied("circle", [NoArgs EXCEPT !.x = x, !.y = y, !.p = radius, !.c = color], out)
             /\ IF out.runaway THEN phase' \in {"Hung", "Crashed"} ELSE phase' = phase
    /\ UNCHANGED <<rnd, heapLive, created, result, noiseLog, allocFailed, nullAccess>>

Noise(KS, lim) ==
    /\ phase = "Building"
    /\ nOps < lim
    /\ \E intensity \in KS :
         LET out == _noise(tex, intensity, rnd)
         IN  /\ Applied("noise", [NoArgs EXCEPT !.k = intensity], out)
             /\ rnd' = out.rnd
             /\ noiseLog' = Append(noiseLog, [before |-> tex.rgb, k |-> intensity, found |-> rnd,
                                               after |-> out.rgb, draws |-> out.draws])
    /\ UNCHANGED <<phase, heapLive, created, result, allocFailed, nullAccess>>

Grunge(KS, lim) ==
    /\ phase = "Building"
    /\ nOps < lim
    /\ \E intensity \in KS :
         Applied("grunge", [NoArgs EXCEPT !.k = intensity], _grunge(tex, intensity))
    /\ UNCHANGED <<phase, rnd, heapLive, created, result, noiseLog, allocFailed, nullAccess>>

Smear(CS, lim) ==
    /\ phase = "Building"
    /\ nOps < lim
    /\ \E rgb \in CS : Applied("smear", [NoArgs EXCEPT !.c = rgb], _smear(tex, rgb))
    /\ UNCHANGED <<phase, rnd, heapLive, created, result, noiseLog, allocFailed, nullAccess>>

\* _mirror: malloc, the copy into the scratch store, the copy back, free.
\* When malloc returns NULL the first copy writes mirrored[0] at address 0 and
\* the process is killed.
Mirror(lim) ==
    /\ phase = "Building"
    /\ nOps < lim
    /\ \E ok \in BOOLEAN :
         IF ok
         THEN /\ Applied("mirror", NoArgs, _mirror(tex))
              /\ heapLive' = free(malloc(heapLive))
              /\ UNCHANGED <<phase, allocFailed, nullAccess>>
         ELSE /\ phase' = "Crashed"
              /\ allocFailed' = TRUE
              /\ nullAccess' = TRUE
              /\ UNCHANGED <<tex, heapLive, last, last2, nOps>>
    /\ UNCHANGED <<rnd, created, result, noiseLog>>

\* _flip: as _mirror, with the scratch store flipped
Flip(lim) ==
    /\ phase = "Building"
    /\ nOps < lim
    /\ \E ok \in BOOLEAN :
         IF ok
         THEN /\ Applied("flip", NoArgs, _flip(tex))
              /\ heapLive' = free(malloc(heapLive))
              /\ UNCHANGED <<phase, allocFailed, nullAccess>>
         ELSE /\ phase' = "Crashed"
              /\ allocFailed' = TRUE
              /\ nullAccess' = TRUE
              /\ UNCHANGED <<tex, heapLive, last, last2, nOps>>
    /\ UNCHANGED <<rnd, created, result, noiseLog>>

\* _create(temp): the value of the tex_build statement expression
_create(t) == t

Create ==
    /\ phase = "Building"
    /\ result' = _create(tex)
    /\ phase' = "Finalized"
    /\ UNCHANGED <<tex, rnd, heapLive, created, last, last2, noiseLog, nOps,
                   allocFailed, nullAccess>>

(* -------------------- the rectangle specification ---------------------- *)
\* One _rect call on a painted buffer.  The arguments reach past the buffer,
\* to 2^31 (held as IntMin) and up to UINT_MAX, where x + width wraps around.
UIntMax == -1
RectCoords == 0..MaxW \cup {IntMin, UIntMax - 1, UIntMax}
RectSizes == 0..(MaxW + 1) \cup {IntMin, UIntMax - 1, UIntMax}

InitRect == InitDrawn(1..MaxW, 1..MaxH, {Grey, Green}, {1})

NextRect ==
    \/ Rect(RectCoords, RectSizes, {Red}, 1)
    \/ Create

SpecRect == InitRect /\ [][NextRect]_vars

\* the pixel at column col of row row
At(rgb, width, col, row) == rgb[row * width + col]
Cols == 0..(tex.width - 1)
Rows == 0..(tex.height - 1)

\* x + s > n for the unsigned values x and s taken as mathematical integers:
\* a held value below 0 is 2^31 or more, above every n of the model
MathSumExceeds(x, s, n) == x < 0 \/ s < 0 \/ x + s > n

\* C3 (rectangle no-op law): after _rect(x, y, rw, rh, c) with x+rw > width or
\* y+rh > height, the sums taken as mathematical integers (so also when the
\* machine sum wraps around), every pixel and both dimensions are what they
\* were before the call and no pixel was written.
C3_RectNoOp ==
    (/\ last.op = "rect"
     /\ \/ MathSumExceeds(last.arg.x, last.arg.p, tex.width)
        \/ MathSumExceeds(last.arg.y, last.arg.q, tex.height))
    => /\ tex.rgb = last.before
       /\ last.written = {}
       /\ tex.width = created.w /\ tex.height = created.h

\* a call whose mathematical sum exceeds the width while its machine sum,
\* wrapped around, passes the guard
C3_Witness ==
    /\ last.op = "rect"
    /\ last.arg.x < 0 /\ last.arg.p > 0 /\ last.arg.q > 0
    /\ RectFits(tex, last.arg.x, last.arg.y, last.arg.p, last.arg.q)
    /\ tex.rgb = last.before

\* C4 (rectangle in-bounds fill): after _rect(x, y, rw, rh, c) with
\* x+rw <= width and y+rh <= height, every pixel (col,row) with
\* x <= col < x+rw and y <= row < y+rh equals c and every other pixel has the
\* value it had before the call.
C4_RectFill ==
    (/\ last.op = "rect"
     /\ ~MathSumExceeds(last.arg.x, last.arg.p, tex.width)
     /\ ~MathSumExceeds(last.arg.y, last.arg.q, tex.height))
    => \A col \in Cols, row \in Rows :
          At(tex.rgb, tex.width, col, row) =
             IF /\ last.arg.x <= col /\ col < last.arg.x + last.arg.p
                /\ last.arg.y <= row /\ row < last.arg.y + last.arg.q
             THEN last.arg.c
             ELSE At(last.before, tex.width, col, row)

\* a rectangle that touches the right and bottom border, on a buffer that was
\* not uniform, leaving some pixel as it was
C4_Witness ==
    /\ last.op = "rect"
    /\ last.arg.x >= 0 /\ last.arg.y >= 0 /\ last.arg.p > 0 /\ last.arg.q > 0
    /\ last.arg.x + last.arg.p = tex.width
    /\ last.arg.y + last.arg.q = tex.height
    /\ \E i, j \in DOMAIN tex.rgb : last.before[i] # last.before[j]
    /\ \E i \in DOMAIN tex.rgb : tex.rgb[i] = last.before[i] /\ tex.rgb[i] # last.arg.c
    /\ \E i \in DOMAIN tex.rgb : tex.rgb[i] # last.before[i]

(* ---------------------- the circle specification ----------------------- *)
\* One _circle call on a grey canvas, with centres inside, on the border of
\* and outside the canvas, and at UINT_MAX, which is -1 passed as the x or y.
CircleCoords == 0..MaxCanvas \cup {UIntMax, UIntMax - 1}

InitCircle == InitDrawn(1..MaxCanvas, 1..MaxCanvas, {Grey}, {1})

NextCircle ==
    \/ Circle(CircleCoords, 0..MaxRadius, {Red}, 1)
    \/ Create

SpecCircle == InitCircle /\ [][NextCircle]_vars

\* the boundary pairs (cx, cy) the algorithm visits for a radius
RECURSIVE PairsFrom(_, _)
PairsFrom(d, radius) ==
    IF d.cx >= d.cy THEN {<<d.cx, d.cy>>} \cup PairsFrom(CircleStep(d, radius), radius) ELSE {}
BoundaryPairs(radius) == PairsFrom(CircleStart(radius), radius)

\* the pixels of the spans [x-cx, x+cx] at rows y+cy, y-cy and [x-cy, x+cy] at
\* rows y+cx, y-cx that lie in the buffer
ClippedSpans(x, y, radius) ==
    {<<col, row>> \in Cols \X Rows :
        \E pr \in BoundaryPairs(radius) :
            \/ x - pr[1] <= col /\ col <= x + pr[1] /\ row \in {y + pr[2], y - pr[2]}
            \/ x - pr[2] <= col /\ col <= x + pr[2] /\ row \in {y + pr[1], y - pr[1]}}

\* the pixels the last operation wrote
WrittenPixels == {<<col, row>> \in Cols \X Rows : row * tex.width + col \in last.written}

\* C1 (per-pixel clipping): the pixels _circle writes are exactly the pixels of
\* the spans of the visited boundary pairs that lie in [0,width) x [0,height),
\* also when a span begins left of column 0 or a row lies above row 0.  Stated
\* for the centres below 2^31, whose value as an int and as an unsigned int is
\* the same.
C1_CircleClipsPerPixel ==
    (last.op = "circle" /\ last.arg.x >= 0 /\ last.arg.y >= 0)
    => WrittenPixels = ClippedSpans(last.arg.x, last.arg.y, last.arg.p)

\* C5 (circle containment): every index _circle writes is in [0, width*height),
\* every pixel it writes is within distance r of the centre, and radius 0
\* writes nothing.  The centre is read as the int of the interface; read as an
\* unsigned int, a centre at UINT_MAX is further away still.
C5_CircleContained ==
    last.op = "circle" =>
        /\ last.written \subseteq 0..(tex.width * tex.height - 1)
        /\ \A pix \in WrittenPixels :
              (pix[1] - last.arg.x) * (pix[1] - last.arg.x)
                + (pix[2] - last.arg.y) * (pix[2] - last.arg.y) <= last.arg.p * last.arg.p
        /\ last.arg.p = 0 => last.written = {}

(* --------------------- the mirror/flip specification ------------------- *)
InitXform == InitDrawn(1..XformW, 1..XformH, {Grey, Green}, {1})

NextXform ==
    \/ Mirror(MaxOps)
    \/ Flip(MaxOps)
    \/ Create

SpecXform == InitXform /\ [][NextXform]_vars

\* C8 (involution): after two mirrors in succession the pixels are those
\* before the first, and after two flips in succession likewise.
C8_Involution ==
    (last.op = last2.op /\ last.op \in {"mirror", "flip"}) => tex.rgb = last2.before

\* two mirrors in succession of a buffer more than one pixel wide whose rows
\* are not palindromes
C8_Witness ==
    /\ last.op = "mirror" /\ last2.op = "mirror"
    /\ tex.width > 1 /\ tex.height > 1
    /\ last.before # tex.rgb

\* C9 (point reflection): after a mirror and a flip in succession, in either
\* order, the pixel at (x, y) is the pixel that was at (width-1-x, height-1-y)
\* before the two; so the two orders give the same buffer.
C9_PointReflection ==
    (/\ {last.op, last2.op} = {"mirror", "flip"})
    => \A col \in Cols, row \in Rows :
          At(tex.rgb, tex.width, col, row) =
             At(last2.before, tex.width, tex.width - 1 - col, tex.height - 1 - row)

\* a flip then a mirror of a buffer that the point reflection changes
C9_Witness ==
    /\ last.op = "mirror" /\ last2.op = "flip"
    /\ tex.width > 1 /\ tex.height > 1
    /\ tex.rgb # last2.before
    /\ tex.rgb # last.before

(* ------------------------ the noise specification ---------------------- *)
\* _noise and _grunge on a grey buffer, the random source in any state
\* (earlier _noise calls on buffers of other sizes, and the program's own
\* rand() calls, leave it anywhere).  The intensities are negative, zero, one,
\* the largest finite float, infinite and NaN.
Intensities == {-FMax, 0, FOne, FMax, PInf, NaN}

InitNoise == InitDrawn(1..MaxW, 1..MaxH, {Grey}, RandStates)

NextNoise ==
    \/ Noise(Intensities, MaxOps)
    \/ Grunge({-FMax, FOne, NaN}, MaxOps)
    \/ Create

SpecNoise == InitNoise /\ [][NextNoise]_vars

\* _noise calls with a _smear between them, which on a buffer of one pixel
\* gives the second call the pixels the first call had
NextNoiseTwice ==
    \/ Noise({-FMax, FOne, NaN}, MaxOps + 1)
    \/ Smear({Grey}, MaxOps + 1)
    \/ Create

SpecNoiseTwice == InitNoise /\ [][NextNoiseTwice]_vars

\* the state of the random source n draws after srand(1)
RECURSIVE StateAfter(_)
StateAfter(n) == IF n = 0 THEN 1 ELSE RandStep(StateAfter(n - 1))

\* the channel v perturbed with the n-th draw after srand(1), clamped
Perturbed(v, k, n) == fminf(fmaxf(FAdd(v, FMul(k, Unit(RandValue(StateAfter(n))))), 0), FOne)

\* C6 (noise determinism): every _noise call gives, whatever state it found
\* the random source in, the buffer in which pixel i has its r, g, b perturbed
\* with the draws 3i+1, 3i+2, 3i+3 after srand(1), having drawn 3*width*height
\* times; so any two calls with equal pixels and equal intensity give equal
\* buffers.
C6_NoiseDeterministic ==
    /\ \A i \in DOMAIN noiseLog :
          LET e == noiseLog[i]
          IN  /\ e.draws = 3 * tex.width * tex.height
              /\ \A p \in DOMAIN e.before :
                    e.after[p] = [r |-> Perturbed(e.before[p].r, e.k, 3 * p + 1),
                                  g |-> Perturbed(e.before[p].g, e.k, 3 * p + 2),
                                  b |-> Perturbed(e.before[p].b, e.k, 3 * p + 3),
                                  a |-> e.before[p].a]
    /\ \A i, j \in DOMAIN noiseLog :
          (noiseLog[i].before = noiseLog[j].before /\ noiseLog[i].k = noiseLog[j].k)
          => noiseLog[i].after = noiseLog[j].after

\* two calls with equal pixels and equal intensity that found the random
\* source in different states and changed the buffer
C6_Witness ==
    /\ Len(noiseLog) = 2
    /\ noiseLog[1].before = noiseLog[2].before
    /\ noiseLog[1].k = noiseLog[2].k
    /\ noiseLog[1].found # noiseLog[2].found
    /\ noiseLog[2].after # noiseLog[2].before

\* C7 (noise clamping): after _noise each of r, g, b of every pixel lies in
\* [0,1], for every intensity and every pixel value before, and every alpha
\* is the one before the call.
C7_NoiseClamped ==
    last.op = "noise" =>
        \A p \in DOMAIN tex.rgb :
            /\ tex.rgb[p].r \in 0..FOne
            /\ tex.rgb[p].g \in 0..FOne
            /\ tex.rgb[p].b \in 0..FOne
            /\ tex.rgb[p].a = last.before[p].a

\* a _noise with a very large intensity on a buffer in which an unclamped
\* _grunge had left a channel outside [0,1]
C7_Witness ==
    /\ last.op = "noise"
    /\ last2.op = "grunge"
    /\ last.arg.k = FMax
    /\ last.before[0].b \notin 0..FOne
    /\ \E p \in DOMAIN tex.rgb : tex.rgb[p].r = 0
    /\ \E p \in DOMAIN tex.rgb : tex.rgb[p].g = FOne \/ tex.rgb[p].r = FOne \/ tex.rgb[p].b = FOne

(* ----------------------- the build specification ----------------------- *)
\* tex_build(texture(w, h, grey), op, op, ...): the initializer, then up to
\* MaxOps operations in any order, then _create.
Next ==
    \/ Texture(1..MaxW, 1..MaxH, {Grey})
    \/ Noise({FOne}, MaxOps)
    \/ Rect({0, 1}, {1, 2}, {Red}, MaxOps)
    \/ Circle({0, 1, UIntMax}, {1, 2}, {Green}, MaxOps)
    \/ Mirror(MaxOps)
    \/ Flip(MaxOps)
    \/ Grunge({FOne}, MaxOps)
    \/ Smear({Green}, MaxOps)
    \/ Create

Spec == Init /\ [][Next]_vars

\* C2 (allocation failure is an error): whenever a malloc has returned NULL,
\* in texture, _mirror or _flip, the build has ended with an AllocationError
\* for its caller and no pixel was read or written through the null pointer.
C2_AllocFailureIsError ==
    allocFailed => (phase = "AllocationError" /\ ~nullAccess)

\* C10 (dimension invariant): after the initializer and after every operation
\* that has returned, width and height are those given at creation, the store
\* holds exactly width*height pixels and is the one live block (the scratch
\* store of _mirror and _flip is released), and what the build returns is the
\* buffer the last operation left.
C10_DimensionsKept ==
    phase \in {"Building", "Finalized"} =>
        /\ tex.width = created.w
        /\ tex.height = created.h
        /\ DOMAIN tex.rgb = 0..(created.w * created.h - 1)
        /\ heapLive = 1
        /\ phase = "Finalized" => result = tex

\* a finished build whose last two operations were a drawing operation and a
\* mirror or flip that moved pixels
C10_Witness ==
    /\ phase = "Finalized"
    /\ nOps = MaxOps
    /\ last.op \in {"mirror", "flip"}
    /\ last2.op \in {"rect", "circle", "smear"}
    /\ tex.rgb # last.before
    /\ tex.width > 1 /\ tex.height > 1

====
